---------------------------- MODULE Spec2Model ----------------------------
(***************************************************************************)
(* A model of the Notion-to-GitHub synchroniser.                           *)
(*                                                                         *)
(*   src/sync.py  : the watermark-driven sync cycle (run_sync), the        *)
(*                  watermark file (get_last_sync / save_sync_time) and    *)
(*                  the endless loop around it.                            *)
(*   src/main.py  : NotionExporter._poll_export_status, the bounded poll   *)
(*                  loop of the export job; BackupOrchestrator.run_backup  *)
(*                  and run_forever, the backup cycle and its scheduler;   *)
(*                  FileProcessor, the rename pass and the link rewriting. *)
(*   src/sync.py  : post_process_files, the same two passes of sync.py.    *)
(*                                                                         *)
(* Strings are sequences of character codes.  A timestamp is a fixed-width *)
(* string of digits; Python compares such strings lexicographically, which *)
(* LexGT reproduces for strings of any length.                             *)
(***************************************************************************)
EXTENDS Integers, Sequences, FiniteSets, TLC

\* ------------------------------------------------------------------ bounds
\* The largest digit a timestamp character takes (digits are 0..MaxDigit).
MaxDigit == 1
\* The max_attempts argument given to _poll_export_status.
MaxAttempts == 5
\* The number of hexadecimal characters of an identifier token: the {32} of
\* the patterns at main.py line 231 and sync.py line 37.
HexLen == 2
\* The largest number of files and directories in an exported tree.
MaxEntries == 3

VARIABLES
    \* ---- src/sync.py
    pc,               \* where run_sync / the __main__ loop stands
    remoteVer,        \* the page's last_edited_time on the server
    syncFile,         \* SYNC_FILE on disk: [exists, content]
    last_edited_time, \* run_sync's local, line 82
    last_sync_time,   \* run_sync's local, line 87
    notes,            \* the content of OUTPUT_DIR (the work tree's notes/)
    index,            \* the git index for notes/
    head,             \* the content of the local HEAD commit
    pushed,           \* the content of notes-repo/main
    log,              \* what the current cycle has printed so far
    crashedAt,        \* where the process was killed, "none" when it was not
    \* ---- src/main.py, _poll_export_status
    ppc,              \* where the poll loop stands
    attempt,          \* the loop variable of `for attempt in range(max_attempts)`
    polls,            \* getTasks requests issued by the current call
    sleeps,           \* time.sleep(10) calls made by the current call
    resp,             \* the response (or error) of the latest poll
    result,           \* what the call returned: "url", "None", or "raised"
    printed,          \* the last line the call printed
    \* ---- src/main.py, BackupOrchestrator
    bpc,              \* where main / run_forever / run_backup stands
    config,           \* the environment the process was started with
    stages,           \* the steps of run_backup begun in the current cycle
    failedStage,      \* the step of the current cycle that failed, or "none"
    outcome,          \* what run_backup returned: "success", "failure", "none"
    success,          \* run_forever's local `success`, line 604
    signalled,        \* a KeyboardInterrupt was raised in the process
    wsVer,            \* the version of the workspace on the server
    temp,             \* the content of /tmp/notion_export
    root,             \* what extracted_path points at, line 540
    repoGit,          \* repo_path/.git exists
    repoTree,         \* the work tree under repo_path, .git apart
    repoHead,         \* the content of the local HEAD commit
    repoRemote,       \* the content of origin/main
    \* ---- clean_filename (main.py) and the pattern of sync.py on one name
    fname,            \* the name given
    fkind,            \* "file" or "dir": what the name is the name of
    cleaned,          \* the name returned
    cleaner,          \* whose stripping was applied: "none", "main", "sync"
    \* ---- the rename pass and the link rewriting on an exported tree
    prog,             \* whose passes run: "main" (main.py) or "sync" (sync.py)
    npc,              \* where the passes stand
    fs,               \* the tree: entry -> [name, live]; an entry is known
                      \* by the path it had in the export
    todo,             \* the entries the rename pass has still to visit
    rename_map,       \* the rename_map dict, in insertion order
    text,             \* the content of each Markdown document
    link,             \* the link written in the export: [doc, target, form]
    failed            \* the entries whose rename raised

syncVars == <<pc, remoteVer, syncFile, last_edited_time, last_sync_time,
              notes, index, head, pushed, log, crashedAt>>
pollVars == <<ppc, attempt, polls, sleeps, resp, result, printed>>
backupVars == <<bpc, config, stages, failedStage, outcome, success, signalled,
                wsVer, temp, root, repoGit, repoTree, repoHead, repoRemote>>
nameVars == <<fname, fkind, cleaned, cleaner>>
normVars == <<prog, npc, fs, todo, rename_map, text, link, failed>>
vars == <<syncVars, pollVars, backupVars, nameVars, normVars>>
\* What the steps of one program leave alone: the state of the others.
notSyncVars == <<pollVars, backupVars, nameVars, normVars>>
notPollVars == <<syncVars, backupVars, nameVars, normVars>>
notBackupVars == <<syncVars, pollVars, nameVars, normVars>>
notNameVars == <<syncVars, pollVars, backupVars, normVars>>
notNormVars == <<syncVars, pollVars, backupVars, nameVars>>

\* ----------------------------------------------------------------- strings
Digit == 0 .. MaxDigit
\* The newline character, the one whitespace a hand-written file ends with.
Whitespace == {10}
\* last_edited_time values: fixed-width strings of digits.
Timestamps == {<<a, b>> : a \in Digit, b \in Digit}
\* "2000-01-01T00:00:00.000Z", the smallest timestamp.
DefaultTs == <<0, 0>>

Min(a, b) == IF a <= b THEN a ELSE b

\* Python's a > b on strings: at the first position where they differ a has
\* the larger character, or b is a proper prefix of a.
LexGT(a, b) ==
    \E i \in 1 .. (Min(Len(a), Len(b)) + 1) :
        /\ \A j \in 1 .. (i - 1) : a[j] = b[j]
        /\ \/ i <= Len(a) /\ i <= Len(b) /\ a[i] > b[i]
           \/ i <= Len(a) /\ i = Len(b) + 1

\* The prefixes of a string, the empty and the whole one included.
Prefixes(s) == {SubSeq(s, 1, n) : n \in 0 .. Len(s)}

RECURSIVE LStrip(_)
LStrip(s) == IF s # <<>> /\ Head(s) \in Whitespace THEN LStrip(Tail(s)) ELSE s
RECURSIVE RStrip(_)
RStrip(s) ==
    IF s # <<>> /\ s[Len(s)] \in Whitespace
    THEN RStrip(SubSeq(s, 1, Len(s) - 1)) ELSE s
\* str.strip()
Strip(s) == RStrip(LStrip(s))

\* ------------------------------------------------------------ watermark file
NoFile == [exists |-> FALSE, content |-> <<>>]
FileWith(s) == [exists |-> TRUE, content |-> s]

\* get_last_sync(): the stripped content, the default when the file is
\* missing or empty.
get_last_sync(file) ==
    IF file.exists
    THEN (IF Strip(file.content) # <<>> THEN Strip(file.content) ELSE DefaultTs)
    ELSE DefaultTs

\* ------------------------------------------------------------ tree contents
\* What a directory or a commit holds: the export of the remote version `ver`
\* in one of the forms "zip" (the archive as downloaded), "raw" (documents
\* with identifier suffixes), "clean" (documents after post-processing), or
\* nothing at all.
Nothing == [ver |-> <<>>, form |-> "none"]
Content(v, f) == [ver |-> v, form |-> f]

\* ---------------------------------------------------------- src/sync.py
gitVars == <<index, head, pushed>>
localVars == <<last_edited_time, last_sync_time>>

\* The lines a stage failure prints: the caught unzip error (line 107), an
\* exception caught by the main loop (line 145), a failed commit (line 135)
\* and a failed version query (line 84).
StageFailures ==
    {"Notion API Error", "Error unzipping", "CRITICAL ERROR", "Commit failed"}

\* A change test that fires on any difference, not on a newer version only.
HasChangedAnyDifference(v, w) == v # w

\* A change test that also fires when the two versions are equal.
HasChangedOrEqual(v, w) == ~LexGT(w, v)

\* last_edited_time > last_sync_time, line 89
HasChanged(v, w) == LexGT(v, w)

\* The page is edited on the server: its last_edited_time grows.  run_sync
\* reads the server at lines 81 and 97 only, so an edit at any other moment
\* is the same as one made just before the next of these reads.
Edit ==
    /\ pc \in {"idle", "export"}
    /\ \E t \in Timestamps : LexGT(t, remoteVer) /\ remoteVer' = t
    /\ UNCHANGED <<pc, syncFile, localVars, notes, gitVars, log, crashedAt>>
    /\ UNCHANGED notSyncVars

\* lines 80-82: the version query answers.
RetrieveOk ==
    /\ pc = "idle"
    /\ last_edited_time' = remoteVer
    /\ log' = {}
    /\ crashedAt' = "none"
    /\ pc' = "compare"
    /\ UNCHANGED <<remoteVer, syncFile, last_sync_time, notes, gitVars>>
    /\ UNCHANGED notSyncVars

\* lines 83-85: the version query raises; run_sync returns.
RetrieveFail ==
    /\ pc = "idle"
    /\ log' = {"Notion API Error"}
    /\ crashedAt' = "none"
    /\ pc' = "idle"
    /\ UNCHANGED <<remoteVer, syncFile, localVars, notes, gitVars>>
    /\ UNCHANGED notSyncVars

\* lines 87-90: the watermark is read and the remote version is newer.
UpdateDetected ==
    /\ pc = "compare"
    /\ last_sync_time' = get_last_sync(syncFile)
    /\ HasChanged(last_edited_time, last_sync_time')
    /\ log' = log \cup {"Update detected"}
    /\ pc' = "clear"
    /\ UNCHANGED <<remoteVer, syncFile, last_edited_time, notes, gitVars, crashedAt>>
    /\ UNCHANGED notSyncVars

\* A cycle that empties the output directory before it finds nothing newer.
NoChangesAfterClearing ==
    /\ pc = "compare"
    /\ last_sync_time' = get_last_sync(syncFile)
    /\ ~HasChanged(last_edited_time, last_sync_time')
    /\ notes' = Nothing
    /\ log' = log \cup {"No changes"}
    /\ pc' = "idle"
    /\ UNCHANGED <<remoteVer, syncFile, last_edited_time, gitVars, crashedAt>>
    /\ UNCHANGED notSyncVars

\* lines 87-89, 136-137: the watermark is read and nothing is newer.
NoChanges ==
    /\ pc = "compare"
    /\ last_sync_time' = get_last_sync(syncFile)
    /\ ~HasChanged(last_edited_time, last_sync_time')
    /\ log' = log \cup {"No changes"}
    /\ pc' = "idle"
    /\ UNCHANGED <<remoteVer, syncFile, last_edited_time, notes, gitVars, crashedAt>>
    /\ UNCHANGED notSyncVars

\* lines 92-94: the output directory is created and emptied.
ClearOutput ==
    /\ pc = "clear"
    /\ notes' = Nothing
    /\ pc' = "export"
    /\ UNCHANGED <<remoteVer, syncFile, localVars, gitVars, log, crashedAt>>
    /\ UNCHANGED notSyncVars

\* lines 96-99: the exporter writes what the page holds now, as an archive
\* or as a directory of documents.
ExportOk ==
    /\ pc = "export"
    /\ \E form \in {"zip", "raw"} : notes' = Content(remoteVer, form)
    /\ pc' = "unzip"
    /\ UNCHANGED <<remoteVer, syncFile, localVars, gitVars, log, crashedAt>>
    /\ UNCHANGED notSyncVars

\* line 97 raises; the main loop catches it (lines 144-145).
ExportFail ==
    /\ pc = "export"
    /\ log' = log \cup {"CRITICAL ERROR"}
    /\ pc' = "idle"
    /\ UNCHANGED <<remoteVer, syncFile, localVars, notes, gitVars, crashedAt>>
    /\ UNCHANGED notSyncVars

\* lines 99-100: the exported path ends in ".zip" when the exporter left an
\* archive in the output directory.
exported_is_zip == notes.form = "zip"

\* line 100: the exporter gave no archive, nothing to unpack.
UnzipSkip ==
    /\ pc = "unzip"
    /\ ~exported_is_zip
    /\ pc' = "post"
    /\ UNCHANGED <<remoteVer, syncFile, localVars, notes, gitVars, log, crashedAt>>
    /\ UNCHANGED notSyncVars

\* lines 100-105: the archive is unpacked and removed.
UnzipOk ==
    /\ pc = "unzip"
    /\ exported_is_zip
    /\ notes' = Content(notes.ver, "raw")
    /\ pc' = "post"
    /\ UNCHANGED <<remoteVer, syncFile, localVars, gitVars, log, crashedAt>>
    /\ UNCHANGED notSyncVars

\* lines 106-107: the archive cannot be opened; the error is printed and
\* run_sync goes on with the archive still in the directory.
UnzipFail ==
    /\ pc = "unzip"
    /\ exported_is_zip
    /\ log' = log \cup {"Error unzipping"}
    /\ pc' = "post"
    /\ UNCHANGED <<remoteVer, syncFile, localVars, notes, gitVars, crashedAt>>
    /\ UNCHANGED notSyncVars

\* line 109: post_process_files renames the documents and rewrites them; a
\* directory that holds only the archive has nothing to process.
PostProcessOk ==
    /\ pc = "post"
    /\ notes' = IF notes.form = "raw" THEN Content(notes.ver, "clean") ELSE notes
    /\ pc' = "git_add"
    /\ UNCHANGED <<remoteVer, syncFile, localVars, gitVars, log, crashedAt>>
    /\ UNCHANGED notSyncVars

\* line 109 raises (a rename or a read fails); the main loop catches it.
PostProcessFail ==
    /\ pc = "post"
    /\ notes.form = "raw"
    /\ log' = log \cup {"CRITICAL ERROR"}
    /\ pc' = "idle"
    /\ UNCHANGED <<remoteVer, syncFile, localVars, notes, gitVars, crashedAt>>
    /\ UNCHANGED notSyncVars

\* lines 111-118: git add notes/ stages the directory.
GitAddOk ==
    /\ pc = "git_add"
    /\ index' = notes
    /\ pc' = "git_status"
    /\ UNCHANGED <<remoteVer, syncFile, localVars, notes, head, pushed, log, crashedAt>>
    /\ UNCHANGED notSyncVars

\* line 118: git add fails; os.system's result is not looked at.
GitAddFail ==
    /\ pc = "git_add"
    /\ pc' = "git_status"
    /\ UNCHANGED <<remoteVer, syncFile, localVars, notes, gitVars, log, crashedAt>>
    /\ UNCHANGED notSyncVars

\* git status --porcelain prints nothing when the work tree, the index and
\* HEAD agree.
StatusEmpty == notes = index /\ index = head

\* lines 120-124: nothing to commit; the watermark is saved.
NoContentChanges ==
    /\ pc = "git_status"
    /\ StatusEmpty
    /\ log' = log \cup {"No content changes detected"}
    /\ pc' = "save_open"
    /\ UNCHANGED <<remoteVer, syncFile, localVars, notes, gitVars, crashedAt>>
    /\ UNCHANGED notSyncVars

\* lines 120-121: there is something to commit.
ContentChanged ==
    /\ pc = "git_status"
    /\ ~StatusEmpty
    /\ pc' = "commit"
    /\ UNCHANGED <<remoteVer, syncFile, localVars, notes, gitVars, log, crashedAt>>
    /\ UNCHANGED notSyncVars

\* lines 126-128: git commit records the index (it exits non-zero when
\* nothing is staged).
CommitOk ==
    /\ pc = "commit"
    /\ index # head
    /\ head' = index
    /\ pc' = "push"
    /\ UNCHANGED <<remoteVer, syncFile, localVars, notes, index, pushed, log, crashedAt>>
    /\ UNCHANGED notSyncVars

\* lines 127, 134-135: git commit exits non-zero.
CommitFail ==
    /\ pc = "commit"
    /\ log' = log \cup {"Commit failed"}
    /\ pc' = "idle"
    /\ UNCHANGED <<remoteVer, syncFile, localVars, notes, gitVars, crashedAt>>
    /\ UNCHANGED notSyncVars

\* lines 129-131: git push --force succeeds; the watermark is saved.
PushOk ==
    /\ pc = "push"
    /\ pushed' = head
    /\ log' = log \cup {"Pushed successfully"}
    /\ pc' = "save_open"
    /\ UNCHANGED <<remoteVer, syncFile, localVars, notes, index, head, crashedAt>>
    /\ UNCHANGED notSyncVars

\* lines 129, 132-133: git push exits non-zero.
PushFail ==
    /\ pc = "push"
    /\ log' = log \cup {"Push failed"}
    /\ pc' = "idle"
    /\ UNCHANGED <<remoteVer, syncFile, localVars, notes, gitVars, crashedAt>>
    /\ UNCHANGED notSyncVars

\* save_sync_time, line 29: open(SYNC_FILE, "w") creates or truncates the file.
SaveOpen ==
    /\ pc = "save_open"
    /\ syncFile' = FileWith(<<>>)
    /\ pc' = "save_write"
    /\ UNCHANGED <<remoteVer, localVars, notes, gitVars, log, crashedAt>>
    /\ UNCHANGED notSyncVars

\* A save that asks the server again instead of keeping the version the
\* cycle started from.
SavedTimestampRequeried == remoteVer

\* What save_sync_time writes: its argument, run_sync's last_edited_time.
SavedTimestamp == last_edited_time

\* save_sync_time, line 30: the timestamp is written and the file closed;
\* run_sync returns.
SaveWrite ==
    /\ pc = "save_write"
    /\ syncFile' = FileWith(SavedTimestamp)
    /\ pc' = "idle"
    /\ UNCHANGED <<remoteVer, localVars, notes, gitVars, log, crashedAt>>
    /\ UNCHANGED notSyncVars

\* The process is killed (or the machine stops) in the middle of a cycle.
\* A file that is open for writing keeps whatever part of the pending write
\* had reached the disk: any prefix of the timestamp.
Crash ==
    /\ pc \notin {"idle", "crashed"}
    /\ crashedAt' = pc
    /\ pc' = "crashed"
    /\ IF pc = "save_write"
       THEN \E s \in Prefixes(SavedTimestamp) : syncFile' = FileWith(s)
       ELSE syncFile' = syncFile
    /\ UNCHANGED <<remoteVer, localVars, notes, gitVars, log>>
    /\ UNCHANGED notSyncVars

\* The process is started again, lines 139-141.
Restart ==
    /\ pc = "crashed"
    /\ pc' = "idle"
    /\ log' = {}
    /\ UNCHANGED <<remoteVer, syncFile, localVars, notes, gitVars, crashedAt>>
    /\ UNCHANGED notSyncVars

\* ------------------------------------------- src/main.py, the poll loop
\* A poll's outcome.  net: the request went through ("ok") or raised a
\* RequestException ("error", an HTTP error status included).  body: the
\* JSON is an object of the expected shape ("object"), cannot be decoded
\* ("undecodable") or decodes to a value the code cannot index, such as a
\* null status ("not_object").  results: data["results"] is empty or holds
\* the task.  type, tstate, sstate: status.type, task.state, status.state.
\* url: status.exportURL, absent ("none"), "" ("empty") or a URL ("url").
NoResponse ==
    [net |-> "none", body |-> "none", results |-> "none", type |-> "none",
     tstate |-> "none", sstate |-> "none", url |-> "none"]
Blank(n, b, r) ==
    [net |-> n, body |-> b, results |-> r, type |-> "none",
     tstate |-> "none", sstate |-> "none", url |-> "none"]
TaskResponses ==
    [net : {"ok"}, body : {"object"}, results : {"task"},
     type : {"none", "complete", "failure", "in_progress"},
     tstate : {"none", "complete", "failure"},
     sstate : {"none", "complete", "in_progress"},
     url : {"none", "empty", "url"}]
PollResponses ==
    {Blank("error", "none", "none"), Blank("ok", "undecodable", "none"),
     Blank("ok", "not_object", "none"), Blank("ok", "object", "empty")}
    \cup TaskResponses

\* lines 155-160: status.type, else task.state, else status.state.
PollState(r) ==
    IF r.type # "none" THEN r.type
    ELSE IF r.tstate # "none" THEN r.tstate ELSE r.sstate

\* line 168: `if export_url` is true of a non-empty URL only.
HasUrl(r) == r.url = "url"

\* A loop that runs one pass too many.
MoreAttemptsOffByOne == attempt <= MaxAttempts

\* line 129: range(max_attempts) has another value for the loop variable.
MoreAttempts == attempt < MaxAttempts

\* One pass of the loop body begins: the request is sent and answered by r.
Polled(r) ==
    /\ ppc = "loop"
    /\ MoreAttempts
    /\ polls' = polls + 1
    /\ resp' = r

\* What the branches that sleep and go round again do (lines 146-147, 186, 190).
SleepAndContinue ==
    /\ sleeps' = sleeps + 1
    /\ attempt' = attempt + 1
    /\ ppc' = "loop"
    /\ result' = result

\* What the branches that return do.
Return(value, line) ==
    /\ result' = value
    /\ printed' = line
    /\ ppc' = "returned"
    /\ UNCHANGED <<attempt, sleeps>>

\* export_space calls _poll_export_status, lines 109, 116-127.
PollCall ==
    /\ ppc \in {"idle", "returned", "raised"}
    /\ ppc' = "loop"
    /\ attempt' = 0
    /\ polls' = 0
    /\ sleeps' = 0
    /\ resp' = NoResponse
    /\ result' = "pending"
    /\ printed' = "Waiting for export to complete"
    /\ UNCHANGED notPollVars

\* lines 131-136, 188-190: the request raises a RequestException.
PollTransportError ==
    /\ Polled(Blank("error", "none", "none"))
    /\ printed' = "Polling failed"
    /\ SleepAndContinue
    /\ UNCHANGED notPollVars

\* line 137: response.json() cannot decode the body.  requests raises a
\* JSONDecodeError that is a RequestException from version 2.27 on and
\* caught by line 188.
PollUndecodableCaught ==
    /\ Polled(Blank("ok", "undecodable", "none"))
    /\ printed' = "Polling failed"
    /\ SleepAndContinue
    /\ UNCHANGED notPollVars

\* line 137 under an older requests: the error is a plain ValueError, which
\* line 188 does not catch; it leaves the function.
PollUndecodableRaised ==
    /\ Polled(Blank("ok", "undecodable", "none"))
    /\ ppc' = "raised"
    /\ result' = "raised"
    /\ UNCHANGED <<attempt, sleeps, printed>>
    /\ UNCHANGED notPollVars

\* lines 143-160: data, the task or its status is not an object; .get raises
\* an AttributeError, which line 188 does not catch.
PollShapeError ==
    /\ Polled(Blank("ok", "not_object", "none"))
    /\ ppc' = "raised"
    /\ result' = "raised"
    /\ UNCHANGED <<attempt, sleeps, printed>>
    /\ UNCHANGED notPollVars

\* lines 143-147: no results for the task.
PollNoResults ==
    /\ Polled(Blank("ok", "object", "empty"))
    /\ printed' = "No results for task"
    /\ SleepAndContinue
    /\ UNCHANGED notPollVars

\* A loop that treats a finished export as one still in progress.
PollCompleteUrlKeepsPolling ==
    /\ \E r \in TaskResponses :
          PollState(r) = "complete" /\ HasUrl(r) /\ Polled(r)
    /\ printed' = "Status"
    /\ SleepAndContinue
    /\ UNCHANGED notPollVars

\* lines 166-170: complete, with a URL.
PollCompleteUrl ==
    /\ \E r \in TaskResponses :
          PollState(r) = "complete" /\ HasUrl(r) /\ Polled(r)
    /\ Return("url", "Export ready")
    /\ UNCHANGED notPollVars

\* A loop that polls again when the finished export carries no URL.
PollCompleteNoUrlRetries ==
    /\ \E r \in TaskResponses :
          PollState(r) = "complete" /\ ~HasUrl(r) /\ Polled(r)
    /\ printed' = "Export complete but no URL found"
    /\ SleepAndContinue
    /\ UNCHANGED notPollVars

\* lines 166-167, 171-174: complete, without a URL.
PollCompleteNoUrl ==
    /\ \E r \in TaskResponses :
          PollState(r) = "complete" /\ ~HasUrl(r) /\ Polled(r)
    /\ Return("None", "Export complete but no URL found")
    /\ UNCHANGED notPollVars

\* A loop that polls again after the server reported the failure.
PollFailureRetries ==
    /\ \E r \in TaskResponses : PollState(r) = "failure" /\ Polled(r)
    /\ printed' = "Export failed"
    /\ SleepAndContinue
    /\ UNCHANGED notPollVars

\* lines 176-180: the export failed.
PollFailure ==
    /\ \E r \in TaskResponses : PollState(r) = "failure" /\ Polled(r)
    /\ Return("None", "Export failed")
    /\ UNCHANGED notPollVars

\* lines 182-186: any other state, the export is still in progress.
PollInProgress ==
    /\ \E r \in TaskResponses :
          PollState(r) \notin {"complete", "failure"} /\ Polled(r)
    /\ printed' = "Status"
    /\ SleepAndContinue
    /\ UNCHANGED notPollVars

\* lines 129, 192-193: the loop has used every attempt.
PollTimeout ==
    /\ ppc = "loop"
    /\ ~MoreAttempts
    /\ Return("None", "Export timeout")
    /\ UNCHANGED <<polls, resp>>
    /\ UNCHANGED notPollVars

\* ------------------------------------------------- names and patterns
\* A name is a sequence of characters, each written as a string.  The
\* characters that matter to the patterns: hexadecimal ones ([a-f0-9]),
\* other letters, the space, the dot, the hyphen; "&" stands for the
\* characters a URL does not carry as they are, and "%20", "%26" for the
\* escapes of the space and of "&".
Hex == {"a", "b"}
Alnum == Hex \cup {"N", "m"}
Space == {" "}

Max(S) == CHOOSE x \in S : \A y \in S : y <= x
MinOf(S) == CHOOSE x \in S : \A y \in S : x <= y

\* str.rfind: the last index of character c in s, 0 when there is none.
RFind(s, c) == Max({0} \cup {i \in 1 .. Len(s) : s[i] = c})

From(s, i) == SubSeq(s, i, Len(s))
Upto(s, i) == SubSeq(s, 1, i)

AllIn(s, S) == \A i \in 1 .. Len(s) : s[i] \in S

\* str.replace(old, new): every occurrence, left to right, not overlapping.
RECURSIVE Replace(_, _, _)
Replace(s, old, new) ==
    IF old = <<>> \/ Len(s) < Len(old) THEN s
    ELSE IF Upto(s, Len(old)) = old
           THEN new \o Replace(From(s, Len(old) + 1), old, new)
           ELSE <<Head(s)>> \o Replace(Tail(s), old, new)

\* `old in content`
Contains(s, old) ==
    \E i \in 1 .. Len(s) - Len(old) + 1 : SubSeq(s, i, i + Len(old) - 1) = old

\* os.path.splitext: the extension starts at the last dot, unless only dots
\* come before it.
splitext(p) ==
    LET dot == RFind(p, ".")
    IN  IF dot > 0 /\ \E k \in 1 .. dot - 1 : p[k] # "."
          THEN <<Upto(p, dot - 1), From(p, dot)>>
          ELSE <<p, <<>>>>

\* The two forms of token of UUID_PATTERN (main.py line 231): HexLen
\* hexadecimal characters, or as many in groups joined by hyphens (8-4-4-4-12
\* in the source, scaled with HexLen here).  "h" is a hexadecimal character.
BareShape == [i \in 1 .. HexLen |-> "h"]
GroupedShape == [i \in 1 .. HexLen - 1 |-> "h"] \o <<"-", "h">>

MatchesShape(s, shape) ==
    /\ Len(s) = Len(shape)
    /\ \A i \in 1 .. Len(s) :
          IF shape[i] = "h" THEN s[i] \in Hex ELSE s[i] = shape[i]

\* The starts of the matches of UUID_PATTERN in name: \s+ and a token of
\* either form, up to the end of the name.
UUID_PATTERN_matches(name) ==
    {i \in 1 .. Len(name) :
        \E j \in i + 1 .. Len(name) :
            /\ AllIn(SubSeq(name, i, j - 1), Space)
            /\ \/ MatchesShape(From(name, j), BareShape)
               \/ MatchesShape(From(name, j), GroupedShape)}

\* UUID_PATTERN.sub('', name): the leftmost match is cut; it reaches the end
\* of the name, so there is no second one.
UUID_PATTERN_sub(name) ==
    IF UUID_PATTERN_matches(name) = {} THEN name
    ELSE Upto(name, MinOf(UUID_PATTERN_matches(name)) - 1)

\* FileProcessor.clean_filename, main.py lines 264-269.
clean_filename(filename) ==
    UUID_PATTERN_sub(splitext(filename)[1]) \o splitext(filename)[2]

\* uuid_pattern.search(filename), sync.py lines 37 and 41: an optional space,
\* HexLen hexadecimal characters, a dot and one or more letters or digits up
\* to the end.  The value is the span of group 1, <<0, 0>> without a match.
uuid_pattern_search(filename) ==
    LET dot == RFind(filename, ".")
        tok == dot - HexLen
    IN  IF /\ dot > 0
           /\ dot < Len(filename)
           /\ AllIn(From(filename, dot + 1), Alnum)
           /\ tok >= 1
           /\ AllIn(SubSeq(filename, tok, dot - 1), Hex)
          THEN IF tok > 1 /\ filename[tok - 1] = " "
                 THEN <<tok - 1, dot - 1>>
                 ELSE <<tok, dot - 1>>
          ELSE <<0, 0>>

\* sync.py lines 41-43: the clean name of a file, the name itself when the
\* pattern does not match.
sync_clean_name(filename) ==
    LET m == uuid_pattern_search(filename)
    IN  IF m = <<0, 0>> THEN filename
        ELSE Replace(filename, SubSeq(filename, m[1], m[2]), <<>>)

\* The names given to the stripping: every string of at most HexLen + 4 of
\* these characters, none of them empty.
NameChars == {"N", "a", " ", ".", "-"}
RECURSIVE StringsUpTo(_, _)
StringsUpTo(S, n) ==
    IF n = 0 THEN {<<>>}
    ELSE LET shorter == StringsUpTo(S, n - 1)
         IN  shorter \cup {Append(w, c) : w \in shorter, c \in S}
Names == StringsUpTo(NameChars, HexLen + 4) \ {<<>>}

\* main.py line 293: new_name = self.clean_filename(old_name), for a file
\* and for a directory alike.
CleanMain ==
    /\ cleaner = "none"
    /\ cleaned' = clean_filename(fname)
    /\ cleaner' = "main"
    /\ UNCHANGED <<fname, fkind>>
    /\ UNCHANGED notNameVars

\* sync.py lines 39-43: only the names in `files` are looked at; a directory
\* keeps its name.
CleanSync ==
    /\ cleaner = "none"
    /\ cleaned' = IF fkind = "file" THEN sync_clean_name(fname) ELSE fname
    /\ cleaner' = "sync"
    /\ UNCHANGED <<fname, fkind>>
    /\ UNCHANGED notNameVars

\* ------------------------------------- the passes on an exported tree
\* Two tokens, and the names an export holds: documents ("N a.m" is a
\* document titled N with token a; ".m" is the Markdown extension),
\* directories of sub-pages, a title with a character that a URL escapes,
\* and the directory of a page whose title holds a dot ("N.N a").
TokA == [i \in 1 .. HexLen |-> "a"]
TokB == [i \in 1 .. HexLen |-> "b"]
FA == <<"N", " ">> \o TokA \o <<".", "m">>
FB == <<"N", " ">> \o TokB \o <<".", "m">>
F0 == <<"N", ".", "m">>
FQ == <<"&", " ">> \o TokA \o <<".", "m">>
DA == <<"N", " ">> \o TokA
DB == <<"N", " ">> \o TokB
D0 == <<"N">>
DD == <<"N", ".", "N", " ">> \o TokA

\* The paths an export can hold, relative to its root.
Universe ==
    {<<FA>>, <<FB>>, <<F0>>, <<FQ>>, <<DA>>, <<DB>>, <<D0>>, <<DD>>,
     <<DA, FA>>, <<DA, FB>>}

ParentOf(id) == Upto(id, Len(id) - 1)
LeafOf(id) == id[Len(id)]
KindOf(id) == IF LeafOf(id) \in {DA, DB, D0, DD} THEN "dir" ELSE "file"

\* The exported trees: at most MaxEntries entries, each under a directory of
\* the tree or under the root.
Trees ==
    {T \in SUBSET Universe :
        /\ T # {}
        /\ Cardinality(T) <= MaxEntries
        /\ \A id \in T : Len(id) > 1 => ParentOf(id) \in T}

\* file.endswith(".md"), sync.py line 56; rglob("*.md"), main.py line 326.
IsMd(name) == Len(name) >= 2 /\ From(name, Len(name) - 1) = <<".", "m">>

\* urllib.parse.quote, sync.py line 49: letters, digits and "_.-~" stay,
\* every other character is escaped.
QuoteChar(c) == IF c = " " THEN "%20" ELSE IF c = "&" THEN "%26" ELSE c
quote(name) == [i \in 1 .. Len(name) |-> QuoteChar(name[i])]

\* name.replace(' ', '%20'), main.py lines 336-337.
replace_space(name) == [i \in 1 .. Len(name) |-> IF name[i] = " " THEN "%20" ELSE name[i]]

\* A link to `name` as the export writes it: the name itself, or its
\* percent-encoding.
Render(name, form) == IF form = "encoded" THEN quote(name) ELSE name

NoLink == [doc |-> <<>>, target |-> <<>>, form |-> "none"]

\* What the export wrote into document d: the link and a line end, or a
\* comment line of the kind sync.py removes ("G") and a line of text.
ExportedText(d, l) ==
    IF l.doc = d THEN Render(LeafOf(l.target), l.form) \o <<"\n">>
    ELSE <<"G", "\n", "N", "\n">>

\* The entries beside `id` in its directory, and their names.
Siblings(id) ==
    {j \in DOMAIN fs : j # id /\ ParentOf(j) = ParentOf(id) /\ fs[j].live}
Taken(id) == {fs[j].name : j \in Siblings(id)}

\* str(counter), main.py line 304.
CounterStr(k) == <<(<<"1", "2", "3", "4", "5", "6", "7", "8", "9">>)[k]>>

\* main.py lines 302-304: f"{name}_{counter}{ext}", name and ext from
\* os.path.splitext(new_name).
Suffixed(new_name, k) ==
    IF k = 0 THEN new_name
    ELSE splitext(new_name)[1] \o <<"_">> \o CounterStr(k) \o splitext(new_name)[2]

\* main.py lines 297-305: new_name when no entry has it, else the first of
\* new_name_1, new_name_2, ... that no entry has.
FreeName(new_name, taken) ==
    Suffixed(new_name,
             MinOf({k \in 0 .. Cardinality(taken) : Suffixed(new_name, k) \notin taken}))

\* sorted(..., key=len(p.parts), reverse=True), main.py line 287, and
\* os.walk(topdown=False), sync.py line 39: the deepest entries come first,
\* entries of one depth in the order the file system lists them.
Deepest(S) == {id \in S : \A j \in S : Len(j) <= Len(id)}

\* old_path.exists(), main.py line 290: the entry is there and every
\* directory above it still has the name it was listed under.
Exists(id) ==
    /\ fs[id].live
    /\ \A k \in 1 .. Len(id) - 1 : fs[Upto(id, k)].name = LeafOf(Upto(id, k))

Visited(id) ==
    /\ todo' = todo \ {id}
    /\ npc' = IF todo' = {} THEN "renamed" ELSE "rename"

\* rename_map[key] = value on a dict that keeps insertion order.
DictSet(d, key, value) ==
    IF \E i \in 1 .. Len(d) : d[i][1] = key
      THEN [i \in 1 .. Len(d) |-> IF d[i][1] = key THEN <<key, value>> ELSE d[i]]
      ELSE Append(d, <<key, value>>)

\* main.py lines 289-308: one turn of the loop of rename_files_and_folders.
\* The map is keyed by path; only the leaf names of a pair are used later
\* (lines 332-333), so the pair of leaf names is kept.
RenameEntry ==
    /\ prog = "main"
    /\ npc = "rename"
    /\ \E id \in Deepest(todo) :
          LET old_name == fs[id].name
              new_name == clean_filename(old_name)
              final == FreeName(new_name, Taken(id))
          IN  /\ IF Exists(id) /\ old_name # new_name
                   THEN /\ fs' = [fs EXCEPT ![id].name = final]
                        /\ rename_map' = Append(rename_map, <<old_name, final>>)
                   ELSE UNCHANGED <<fs, rename_map>>
              /\ Visited(id)
    /\ UNCHANGED <<prog, text, link, failed>>
    /\ UNCHANGED notNormVars

\* main.py lines 306-311: the rename raises, a warning is printed and the
\* loop goes on.
RenameEntryFail ==
    /\ prog = "main"
    /\ npc = "rename"
    /\ \E id \in Deepest(todo) :
          /\ Exists(id)
          /\ fs[id].name # clean_filename(fs[id].name)
          /\ failed' = failed \cup {id}
          /\ Visited(id)
    /\ UNCHANGED <<prog, fs, rename_map, text, link>>
    /\ UNCHANGED notNormVars

\* sync.py lines 40-50: one file of the walk.  os.rename puts the file
\* under the clean name; a file that had this name is replaced.
RenameFile ==
    /\ prog = "sync"
    /\ npc = "rename"
    /\ \E id \in Deepest(todo) :
          LET filename == fs[id].name
              clean_name == sync_clean_name(filename)
              replaced == {j \in Siblings(id) : fs[j].name = clean_name}
          IN  /\ \A j \in replaced : KindOf(j) = "file"
              /\ IF fs[id].live /\ filename # clean_name
                   THEN /\ fs' = [j \in DOMAIN fs |->
                                   IF j = id THEN [fs[j] EXCEPT !.name = clean_name]
                                   ELSE IF j \in replaced
                                          THEN [fs[j] EXCEPT !.live = FALSE]
                                          ELSE fs[j]]
                        /\ rename_map' = DictSet(rename_map, quote(filename),
                                                 quote(clean_name))
                   ELSE UNCHANGED <<fs, rename_map>>
              /\ Visited(id)
    /\ UNCHANGED <<prog, text, link, failed>>
    /\ UNCHANGED notNormVars

\* sync.py line 48 raises (the clean name is a directory's, or the rename
\* is refused) outside any try: post_process_files and run_sync are left,
\* no other file is renamed and no document is rewritten.
RenameFileRaises ==
    /\ prog = "sync"
    /\ npc = "rename"
    /\ \E id \in Deepest(todo) :
          /\ fs[id].live
          /\ fs[id].name # sync_clean_name(fs[id].name)
          /\ failed' = failed \cup {id}
    /\ npc' = "aborted"
    /\ UNCHANGED <<prog, fs, todo, rename_map, text, link>>
    /\ UNCHANGED notNormVars

\* The live Markdown documents.
MdFiles == {d \in DOMAIN text : fs[d].live /\ IsMd(fs[d].name)}

\* A rewriting that ends what it writes with a line end.
RECURSIVE FixContentEndsLine(_, _)
FixContentEndsLine(content, map) ==
    IF map = <<>> THEN content \o <<"\n">>
    ELSE FixContentEndsLine(
             Replace(Replace(content, replace_space(map[1][1]), replace_space(map[1][2])),
                     map[1][1], map[1][2]),
             Tail(map))

\* main.py lines 331-341: for each pair of the map, the name with its
\* spaces escaped and then the name itself are replaced.
RECURSIVE FixContent(_, _)
FixContent(content, map) ==
    IF map = <<>> THEN content
    ELSE FixContent(
             Replace(Replace(content, replace_space(map[1][1]), replace_space(map[1][2])),
                     map[1][1], map[1][2]),
             Tail(map))

\* sync.py lines 62-64: for each pair of the map, the quoted name is
\* replaced.
RECURSIVE ReplaceLinks(_, _)
ReplaceLinks(content, map) ==
    IF map = <<>> THEN content
    ELSE ReplaceLinks(
             IF Contains(content, map[1][1])
               THEN Replace(content, map[1][1], map[1][2])
               ELSE content,
             Tail(map))

\* str.splitlines and "\n".join, sync.py lines 66 and 74.
RECURSIVE splitlines(_)
splitlines(s) ==
    IF s = <<>> THEN <<>>
    ELSE LET ends == {i \in 1 .. Len(s) : s[i] = "\n"}
         IN  IF ends = {} THEN <<s>>
             ELSE <<Upto(s, MinOf(ends) - 1)>> \o splitlines(From(s, MinOf(ends) + 1))

RECURSIVE join(_)
join(lines) ==
    IF lines = <<>> THEN <<>>
    ELSE IF Len(lines) = 1 THEN lines[1]
    ELSE lines[1] \o <<"\n">> \o join(Tail(lines))

\* line.strip(), sync.py line 69, on a line (it holds no line end).
RECURSIVE strip_spaces(_)
strip_spaces(line) ==
    IF line # <<>> /\ Head(line) \in Space THEN strip_spaces(Tail(line))
    ELSE IF line # <<>> /\ line[Len(line)] \in Space
           THEN strip_spaces(Upto(line, Len(line) - 1))
           ELSE line

\* garbage_pattern.match(line.strip()), sync.py lines 52 and 69; "G" is the
\* text "[//]: # (... is not supported)".
IsGarbage(line) == strip_spaces(line) # <<>> /\ Head(strip_spaces(line)) = "G"

RECURSIVE cleaned_lines(_)
cleaned_lines(lines) ==
    IF lines = <<>> THEN <<>>
    ELSE IF IsGarbage(Head(lines)) THEN cleaned_lines(Tail(lines))
    ELSE <<Head(lines)>> \o cleaned_lines(Tail(lines))

\* sync.py lines 59-74: what is written back to a document.
PostProcessed(content, map) ==
    join(cleaned_lines(splitlines(ReplaceLinks(content, map))))

\* fix_markdown_links, main.py lines 315-350, over every document.
FixMarkdownLinks ==
    /\ prog = "main"
    /\ npc = "renamed"
    /\ text' = [d \in DOMAIN text |->
                  IF d \in MdFiles THEN FixContent(text[d], rename_map) ELSE text[d]]
    /\ npc' = "fixed"
    /\ UNCHANGED <<prog, fs, todo, rename_map, link, failed>>
    /\ UNCHANGED notNormVars

\* fix_markdown_links called once more with the same map.
FixMarkdownLinksAgain ==
    /\ prog = "main"
    /\ npc = "fixed"
    /\ text' = [d \in DOMAIN text |->
                  IF d \in MdFiles THEN FixContent(text[d], rename_map) ELSE text[d]]
    /\ npc' = "fixed_again"
    /\ UNCHANGED <<prog, fs, todo, rename_map, link, failed>>
    /\ UNCHANGED notNormVars

\* sync.py lines 54-74, over every document.
RewriteDocuments ==
    /\ prog = "sync"
    /\ npc = "renamed"
    /\ text' = [d \in DOMAIN text |->
                  IF d \in MdFiles THEN PostProcessed(text[d], rename_map) ELSE text[d]]
    /\ npc' = "fixed"
    /\ UNCHANGED <<prog, fs, todo, rename_map, link, failed>>
    /\ UNCHANGED notNormVars

\* sync.py lines 54-74 run once more with the same map.
RewriteDocumentsAgain ==
    /\ prog = "sync"
    /\ npc = "fixed"
    /\ text' = [d \in DOMAIN text |->
                  IF d \in MdFiles THEN PostProcessed(text[d], rename_map) ELSE text[d]]
    /\ npc' = "fixed_again"
    /\ UNCHANGED <<prog, fs, todo, rename_map, link, failed>>
    /\ UNCHANGED notNormVars

\* ----------------------------------- src/main.py, the backup orchestrator
\* The steps of run_backup in the order of the code (lines 522-574): the
\* export is triggered and awaited inside export_space (lines 91-110).
StageOrder ==
    <<"trigger", "await", "fetch", "extract", "normalize", "init_repo",
      "replace", "commit_push">>

\* The steps whose result run_backup tests with `if not ...: return False`.
FatalStages == {"trigger", "await", "fetch", "extract", "init_repo", "commit_push"}

\* The positions between the entry of run_backup's try and its finally.
InCycle ==
    {"trigger", "await", "fetch", "extract", "normalize", "init_repo",
     "replace", "copy", "commit_push"}

\* The versions the workspace takes on the server, one-character strings.
Versions == {<<d>> : d \in Digit}

\* A step ends well: it is recorded and run_backup goes on to `next`.
Proceed(stage, next) ==
    /\ stages' = Append(stages, stage)
    /\ bpc' = next
    /\ UNCHANGED <<failedStage, outcome>>

\* A step returns a falsy result (run_backup prints and returns False, e.g.
\* lines 530-532) or raises an Exception (lines 581-585 return False): the
\* finally clause is next.
Failed(stage) ==
    /\ stages' = Append(stages, stage)
    /\ failedStage' = stage
    /\ outcome' = "failure"
    /\ bpc' = "cleanup"

\* main, lines 624-629: a required variable is missing (validate_config,
\* lines 494-506) or BACKUP_INTERVAL_HOURS is no integer (line 474); the
\* ValueError ends the process with exit(1).
ConfigInvalid ==
    /\ bpc = "boot"
    /\ config = "invalid"
    /\ bpc' = "exit1"
    /\ UNCHANGED <<config, stages, failedStage, outcome, success, signalled,
                   wsVer, temp, root, repoGit, repoTree, repoHead, repoRemote>>
    /\ UNCHANGED notBackupVars

\* main, lines 624-625, and run_forever up to its loop, lines 595-601.
ServiceStart ==
    /\ bpc = "boot"
    /\ config # "invalid"
    /\ bpc' = "loop"
    /\ UNCHANGED <<config, stages, failedStage, outcome, success, signalled,
                   wsVer, temp, root, repoGit, repoTree, repoHead, repoRemote>>
    /\ UNCHANGED notBackupVars

\* The workspace is edited on the server.  run_backup reads it while the
\* export runs, so an edit at another moment is one made during the sleep.
WorkspaceEdit ==
    /\ bpc \in {"sleep", "error_sleep"}
    /\ \E v \in Versions : v # wsVer /\ wsVer' = v
    /\ UNCHANGED <<bpc, config, stages, failedStage, outcome, success,
                   signalled, temp, root, repoGit, repoTree, repoHead, repoRemote>>
    /\ UNCHANGED notBackupVars

\* lines 602-604 and 508-520: run_forever calls run_backup, which creates
\* the temporary directory.
StartCycle ==
    /\ bpc = "loop"
    /\ stages' = <<>>
    /\ failedStage' = "none"
    /\ outcome' = "none"
    /\ root' = "none"
    /\ bpc' = "trigger"
    /\ UNCHANGED <<config, success, signalled, wsVer, temp, repoGit, repoTree,
                   repoHead, repoRemote>>
    /\ UNCHANGED notBackupVars

\* export_space, lines 93-107: the task is enqueued and has a taskId.
TriggerOk ==
    /\ bpc = "trigger"
    /\ Proceed("trigger", "await")
    /\ UNCHANGED <<config, success, signalled, wsVer, temp, root, repoGit,
                   repoTree, repoHead, repoRemote>>
    /\ UNCHANGED notBackupVars

\* export_space, lines 102-104 and 112-114: no taskId, or the request
\* failed; export_space returns None and run_backup returns False (530-532).
TriggerFail ==
    /\ bpc = "trigger"
    /\ Failed("trigger")
    /\ UNCHANGED <<config, success, signalled, wsVer, temp, root, repoGit,
                   repoTree, repoHead, repoRemote>>
    /\ UNCHANGED notBackupVars

\* export_space, lines 109-110: _poll_export_status returns the URL.
AwaitOk ==
    /\ bpc = "await"
    /\ Proceed("await", "fetch")
    /\ UNCHANGED <<config, success, signalled, wsVer, temp, root, repoGit,
                   repoTree, repoHead, repoRemote>>
    /\ UNCHANGED notBackupVars

\* _poll_export_status returns None (export failed, no URL, timeout) or
\* raises; run_backup returns False (lines 530-532, 581-585).
AwaitFail ==
    /\ bpc = "await"
    /\ Failed("await")
    /\ UNCHANGED <<config, success, signalled, wsVer, temp, root, repoGit,
                   repoTree, repoHead, repoRemote>>
    /\ UNCHANGED notBackupVars

\* download_export, lines 208-221: the body of the response is written to
\* export.zip; what was received is an archive of the workspace or is not
\* one (a truncated or foreign body).
FetchOk ==
    /\ bpc = "fetch"
    /\ \E form \in {"zip", "bad"} : temp' = Content(wsVer, form)
    /\ Proceed("fetch", "extract")
    /\ UNCHANGED <<config, success, signalled, wsVer, root, repoGit, repoTree,
                   repoHead, repoRemote>>
    /\ UNCHANGED notBackupVars

\* download_export returns False (lines 223-225) or raises while writing;
\* run_backup returns False (lines 535-537).
FetchFail ==
    /\ bpc = "fetch"
    /\ Failed("fetch")
    /\ UNCHANGED <<config, success, signalled, wsVer, temp, root, repoGit,
                   repoTree, repoHead, repoRemote>>
    /\ UNCHANGED notBackupVars

\* unzip_export, lines 247-256: the archive is unpacked next to export.zip
\* and the first entry that iterdir lists is returned.  The order of iterdir
\* is the file system's, and the archive has one top-level directory or
\* several top-level entries: the entry returned is the directory that holds
\* the whole export ("tree"), one directory among several top-level entries
\* ("part"), or a file, export.zip or a top-level document ("archive").
ExtractOk ==
    /\ bpc = "extract"
    /\ temp.form = "zip"
    /\ temp' = Content(temp.ver, "raw")
    /\ \E r \in {"tree", "part", "archive"} : root' = r
    /\ Proceed("extract", "normalize")
    /\ UNCHANGED <<config, success, signalled, wsVer, repoGit, repoTree,
                   repoHead, repoRemote>>
    /\ UNCHANGED notBackupVars

\* A failed extraction after which run_backup goes on to the next step.
ExtractFailContinues ==
    /\ bpc = "extract"
    /\ stages' = Append(stages, "extract")
    /\ failedStage' = "extract"
    /\ bpc' = "normalize"
    /\ UNCHANGED <<config, outcome, success, signalled, wsVer, temp, root,
                   repoGit, repoTree, repoHead, repoRemote>>
    /\ UNCHANGED notBackupVars

\* unzip_export, lines 260-262: BadZipFile, None is returned; or another
\* error is raised while unpacking.  run_backup returns False (541-543).
ExtractFail ==
    /\ bpc = "extract"
    /\ Failed("extract")
    /\ UNCHANGED <<config, success, signalled, wsVer, temp, root, repoGit,
                   repoTree, repoHead, repoRemote>>
    /\ UNCHANGED notBackupVars

\* lines 546-547: rename_files_and_folders and fix_markdown_links walk
\* extracted_path; on a file they find nothing to walk, on one directory
\* among several they leave the other entries as exported.
NormalizeOk ==
    /\ bpc = "normalize"
    /\ temp' = IF root = "tree" THEN Content(temp.ver, "clean")
               ELSE IF root = "part" THEN Content(temp.ver, "part")
               ELSE temp
    /\ Proceed("normalize", "init_repo")
    /\ UNCHANGED <<config, success, signalled, wsVer, root, repoGit, repoTree,
                   repoHead, repoRemote>>
    /\ UNCHANGED notBackupVars

\* lines 546-547 raise outside the per-entry handlers (the walk itself
\* fails); run_backup returns False (lines 581-585).
NormalizeFail ==
    /\ bpc = "normalize"
    /\ Failed("normalize")
    /\ UNCHANGED <<config, success, signalled, wsVer, temp, root, repoGit,
                   repoTree, repoHead, repoRemote>>
    /\ UNCHANGED notBackupVars

\* initialize_repo, lines 378-406: with .git present nothing is done; else
\* git init, and a pull whose result is ignored brings origin/main or nothing.
InitRepoOk ==
    /\ bpc = "init_repo"
    /\ repoGit' = TRUE
    /\ IF repoGit
         THEN UNCHANGED <<repoTree, repoHead>>
         ELSE \E pulled \in BOOLEAN :
                 /\ repoTree' = IF pulled THEN repoRemote ELSE repoTree
                 /\ repoHead' = IF pulled THEN repoRemote ELSE repoHead
    /\ Proceed("init_repo", "replace")
    /\ UNCHANGED <<config, success, signalled, wsVer, temp, root, repoRemote>>
    /\ UNCHANGED notBackupVars

\* A failed repository initialization that has emptied the work tree.
InitRepoFailClears ==
    /\ bpc = "init_repo"
    /\ repoTree' = Nothing
    /\ Failed("init_repo")
    /\ UNCHANGED <<config, success, signalled, wsVer, temp, root, repoGit,
                   repoHead, repoRemote>>
    /\ UNCHANGED notBackupVars

\* initialize_repo, lines 390-393: git init fails; run_backup returns False
\* (lines 550-552).
InitRepoFail ==
    /\ bpc = "init_repo"
    /\ ~repoGit
    /\ Failed("init_repo")
    /\ UNCHANGED <<config, success, signalled, wsVer, temp, root, repoGit,
                   repoTree, repoHead, repoRemote>>
    /\ UNCHANGED notBackupVars

\* lines 554-562: every entry of repo_path but .git is removed.
ReplaceClear ==
    /\ bpc = "replace"
    /\ repoTree' = Nothing
    /\ Proceed("replace", "copy")
    /\ UNCHANGED <<config, success, signalled, wsVer, temp, root, repoGit,
                   repoHead, repoRemote>>
    /\ UNCHANGED notBackupVars

\* lines 564-570: the entries of extracted_path are copied into repo_path;
\* with extracted_path one directory among several, only what it holds.
ReplaceCopy ==
    /\ bpc = "copy"
    /\ root \in {"tree", "part"}
    /\ repoTree' = temp
    /\ bpc' = "commit_push"
    /\ UNCHANGED <<config, stages, failedStage, outcome, success, signalled,
                   wsVer, temp, root, repoGit, repoHead, repoRemote>>
    /\ UNCHANGED notBackupVars

\* line 565 raises NotADirectoryError when extracted_path is a file, and
\* a copy can fail; run_backup returns False (lines 581-585) with the work
\* tree already emptied.
ReplaceCopyFail ==
    /\ bpc = "copy"
    /\ failedStage' = "replace"
    /\ outcome' = "failure"
    /\ bpc' = "cleanup"
    /\ UNCHANGED <<config, stages, success, signalled, wsVer, temp, root,
                   repoGit, repoTree, repoHead, repoRemote>>
    /\ UNCHANGED notBackupVars

\* commit_and_push, lines 423-427: git status prints nothing, True.
CommitPushNoChanges ==
    /\ bpc = "commit_push"
    /\ repoTree = repoHead
    /\ stages' = Append(stages, "commit_push")
    /\ outcome' = "success"
    /\ bpc' = "cleanup"
    /\ UNCHANGED <<config, failedStage, success, signalled, wsVer, temp, root,
                   repoGit, repoTree, repoHead, repoRemote>>
    /\ UNCHANGED notBackupVars

\* commit_and_push, lines 429-459: add, commit and push succeed; run_backup
\* returns True (line 579).
CommitPushOk ==
    /\ bpc = "commit_push"
    /\ repoTree # repoHead
    /\ repoHead' = repoTree
    /\ repoRemote' = repoTree
    /\ stages' = Append(stages, "commit_push")
    /\ outcome' = "success"
    /\ bpc' = "cleanup"
    /\ UNCHANGED <<config, failedStage, success, signalled, wsVer, temp, root,
                   repoGit, repoTree>>
    /\ UNCHANGED notBackupVars

\* commit_and_push returns False: add or commit failed (lines 434-443), or
\* the commit was made and both pushes failed (lines 447-455); run_backup
\* returns False (lines 572-574).
CommitPushFail ==
    /\ bpc = "commit_push"
    /\ repoTree # repoHead
    /\ \E committed \in BOOLEAN :
          repoHead' = IF committed THEN repoTree ELSE repoHead
    /\ Failed("commit_push")
    /\ UNCHANGED <<config, success, signalled, wsVer, temp, root, repoGit,
                   repoTree, repoRemote>>
    /\ UNCHANGED notBackupVars

\* lines 587-590, then line 604: the finally clause removes the temporary
\* directory; a return value goes to run_forever, a KeyboardInterrupt on its
\* way up reaches run_forever's handler (lines 611-613), which breaks.
Cleanup ==
    /\ bpc = "cleanup"
    /\ temp' = Nothing
    /\ IF signalled
         THEN bpc' = "stopped" /\ UNCHANGED success
         ELSE bpc' = "report" /\ success' = (outcome = "success")
    /\ UNCHANGED <<config, stages, failedStage, outcome, signalled, wsVer,
                   root, repoGit, repoTree, repoHead, repoRemote>>
    /\ UNCHANGED notBackupVars

\* A scheduler that leaves the loop when the cycle failed.
ReportStopsOnFailure ==
    /\ bpc = "report"
    /\ bpc' = IF success THEN "sleep" ELSE "stopped"
    /\ UNCHANGED <<config, stages, failedStage, outcome, success, signalled,
                   wsVer, temp, root, repoGit, repoTree, repoHead, repoRemote>>
    /\ UNCHANGED notBackupVars

\* lines 606-609: either message is printed and the sleep is next.
Report ==
    /\ bpc = "report"
    /\ bpc' = "sleep"
    /\ UNCHANGED <<config, stages, failedStage, outcome, success, signalled,
                   wsVer, temp, root, repoGit, repoTree, repoHead, repoRemote>>
    /\ UNCHANGED notBackupVars

\* line 609: time.sleep(interval_hours * 3600) returns.
Sleep ==
    /\ bpc = "sleep"
    /\ config = "valid"
    /\ bpc' = "loop"
    /\ UNCHANGED <<config, stages, failedStage, outcome, success, signalled,
                   wsVer, temp, root, repoGit, repoTree, repoHead, repoRemote>>
    /\ UNCHANGED notBackupVars

\* line 609 with a negative BACKUP_INTERVAL_HOURS: time.sleep raises
\* ValueError, caught at lines 614-616.
SleepRaises ==
    /\ bpc = "sleep"
    /\ config = "negative_interval"
    /\ bpc' = "error_sleep"
    /\ UNCHANGED <<config, stages, failedStage, outcome, success, signalled,
                   wsVer, temp, root, repoGit, repoTree, repoHead, repoRemote>>
    /\ UNCHANGED notBackupVars

\* line 617: time.sleep(3600) returns and the loop goes round.
ErrorSleep ==
    /\ bpc = "error_sleep"
    /\ bpc' = "loop"
    /\ UNCHANGED <<config, stages, failedStage, outcome, success, signalled,
                   wsVer, temp, root, repoGit, repoTree, repoHead, repoRemote>>
    /\ UNCHANGED notBackupVars

\* SIGINT while run_backup is between its try and its finally: Python
\* raises KeyboardInterrupt in the running call.  It is no Exception, so the
\* handlers at lines 188, 223, 372 and 581 let it pass; the finally clause
\* runs next.
InterruptCycle ==
    /\ bpc \in InCycle
    /\ signalled' = TRUE
    /\ bpc' = "cleanup"
    /\ UNCHANGED <<config, stages, failedStage, outcome, success, wsVer, temp,
                   root, repoGit, repoTree, repoHead, repoRemote>>
    /\ UNCHANGED notBackupVars

\* SIGINT inside run_forever's try but outside run_backup (lines 602-609):
\* the handler at lines 611-613 breaks out of the loop.
InterruptIdle ==
    /\ bpc \in {"loop", "report", "sleep"}
    /\ signalled' = TRUE
    /\ bpc' = "stopped"
    /\ UNCHANGED <<config, stages, failedStage, outcome, success, wsVer, temp,
                   root, repoGit, repoTree, repoHead, repoRemote>>
    /\ UNCHANGED notBackupVars

\* SIGINT during the sleep of the `except Exception` handler (line 617):
\* no handler is around it, the process ends with the traceback.
InterruptErrorSleep ==
    /\ bpc = "error_sleep"
    /\ signalled' = TRUE
    /\ bpc' = "killed"
    /\ UNCHANGED <<config, stages, failedStage, outcome, success, wsVer, temp,
                   root, repoGit, repoTree, repoHead, repoRemote>>
    /\ UNCHANGED notBackupVars

\* ------------------------------------------------------- specifications
InitSync ==
    /\ pc = "idle"
    /\ remoteVer \in Timestamps
    /\ syncFile \in {NoFile, FileWith(<<>>)}
                    \cup {FileWith(t) : t \in Timestamps}
                    \cup {FileWith(t \o <<10>>) : t \in Timestamps}
    /\ last_edited_time = DefaultTs
    /\ last_sync_time = DefaultTs
    /\ notes = Nothing
    /\ index = Nothing
    /\ head = Nothing
    /\ pushed = Nothing
    /\ log = {}
    /\ crashedAt = "none"

InitPoll ==
    /\ ppc = "idle"
    /\ attempt = 0
    /\ polls = 0
    /\ sleeps = 0
    /\ resp = NoResponse
    /\ result = "pending"
    /\ printed = ""

\* sync.py's variables while another program is observed.
IdleSync ==
    /\ pc = "idle"
    /\ remoteVer = DefaultTs
    /\ syncFile = NoFile
    /\ last_edited_time = DefaultTs
    /\ last_sync_time = DefaultTs
    /\ notes = Nothing
    /\ index = Nothing
    /\ head = Nothing
    /\ pushed = Nothing
    /\ log = {}
    /\ crashedAt = "none"

\* The backup orchestrator's variables while another program is observed.
IdleBackup ==
    /\ bpc = "boot"
    /\ config = "valid"
    /\ stages = <<>>
    /\ failedStage = "none"
    /\ outcome = "none"
    /\ success = FALSE
    /\ signalled = FALSE
    /\ wsVer = <<0>>
    /\ temp = Nothing
    /\ root = "none"
    /\ repoGit = FALSE
    /\ repoTree = Nothing
    /\ repoHead = Nothing
    /\ repoRemote = Nothing

\* The stripping's variables while another program is observed.
IdleNames ==
    /\ fname = <<>>
    /\ fkind = "file"
    /\ cleaned = <<>>
    /\ cleaner = "none"

\* The passes' variables while another program is observed.
IdleNorm ==
    /\ prog = "main"
    /\ npc = "rename"
    /\ fs = <<>>
    /\ todo = {}
    /\ rename_map = <<>>
    /\ text = <<>>
    /\ link = NoLink
    /\ failed = {}

\* sync.py: the cycles of the __main__ loop, no process kill.
Init ==
    /\ InitSync
    /\ InitPoll
    /\ IdleBackup
    /\ IdleNames
    /\ IdleNorm

Next ==
    \/ Edit
    \/ RetrieveOk
    \/ RetrieveFail
    \/ UpdateDetected
    \/ NoChanges
    \/ ClearOutput
    \/ ExportOk
    \/ ExportFail
    \/ UnzipSkip
    \/ UnzipOk
    \/ UnzipFail
    \/ PostProcessOk
    \/ PostProcessFail
    \/ GitAddOk
    \/ GitAddFail
    \/ NoContentChanges
    \/ ContentChanged
    \/ CommitOk
    \/ CommitFail
    \/ PushOk
    \/ PushFail
    \/ SaveOpen
    \/ SaveWrite

Spec == Init /\ [][Next]_vars

\* sync.py where the process can be killed at any point and started again.
CrashNext ==
    \/ Next
    \/ Crash
    \/ Restart

SpecCrash == Init /\ [][CrashNext]_vars

\* main.py: calls of _poll_export_status against every server behaviour.
PollInit ==
    /\ InitPoll
    /\ IdleSync
    /\ IdleBackup
    /\ IdleNames
    /\ IdleNorm

PollNext ==
    \/ PollCall
    \/ PollTransportError
    \/ PollUndecodableCaught
    \/ PollUndecodableRaised
    \/ PollShapeError
    \/ PollNoResults
    \/ PollCompleteUrl
    \/ PollCompleteNoUrl
    \/ PollFailure
    \/ PollInProgress
    \/ PollTimeout

SpecPoll == PollInit /\ [][PollNext]_vars

\* The poll loop is straight-line code: a request has a timeout and a sleep
\* ends, so a step that can be taken is taken.
SpecPollFair == SpecPoll /\ WF_vars(PollNext)

\* main.py: the process from its start, with every environment, a fresh
\* repo_path and a remote that is empty or holds an earlier backup.
BackupInit ==
    /\ IdleSync
    /\ InitPoll
    /\ bpc = "boot"
    /\ config \in {"valid", "invalid", "negative_interval"}
    /\ stages = <<>>
    /\ failedStage = "none"
    /\ outcome = "none"
    /\ success = FALSE
    /\ signalled = FALSE
    /\ wsVer \in Versions
    /\ temp = Nothing
    /\ root = "none"
    /\ repoGit = FALSE
    /\ repoTree = Nothing
    /\ repoHead = Nothing
    /\ repoRemote \in {Nothing} \cup {Content(v, "clean") : v \in Versions}
    /\ IdleNames
    /\ IdleNorm

\* The steps the process takes by itself.
BackupSteps ==
    \/ ConfigInvalid
    \/ ServiceStart
    \/ StartCycle
    \/ TriggerOk
    \/ TriggerFail
    \/ AwaitOk
    \/ AwaitFail
    \/ FetchOk
    \/ FetchFail
    \/ ExtractOk
    \/ ExtractFail
    \/ NormalizeOk
    \/ NormalizeFail
    \/ InitRepoOk
    \/ InitRepoFail
    \/ ReplaceClear
    \/ ReplaceCopy
    \/ ReplaceCopyFail
    \/ CommitPushNoChanges
    \/ CommitPushOk
    \/ CommitPushFail
    \/ Cleanup
    \/ Report
    \/ Sleep
    \/ SleepRaises
    \/ ErrorSleep

\* What the environment does to it.
BackupEnv ==
    \/ WorkspaceEdit
    \/ InterruptCycle
    \/ InterruptIdle
    \/ InterruptErrorSleep

BackupNext ==
    \/ BackupSteps
    \/ BackupEnv

SpecBackup == BackupInit /\ [][BackupNext]_vars

\* Every call run_backup makes has a timeout (requests: lines 96, 132, 209;
\* git: line 368; the poll loop is bounded) and every sleep ends, so a step
\* of the process that can be taken is taken.  Signals and edits may never
\* come.
SpecBackupFair == SpecBackup /\ WF_vars(BackupSteps)

\* The stripping of one name, by main.py and by sync.py, for every name.
NamesInit ==
    /\ IdleSync
    /\ InitPoll
    /\ IdleBackup
    /\ fname \in Names
    /\ fkind \in {"file", "dir"}
    /\ cleaned = <<>>
    /\ cleaner = "none"
    /\ IdleNorm

NamesNext ==
    \/ CleanMain
    \/ CleanSync

SpecNames == NamesInit /\ [][NamesNext]_vars

\* The passes of main.py and of sync.py on every exported tree, with at
\* most one link in its documents.
NormInit ==
    /\ IdleSync
    /\ InitPoll
    /\ IdleBackup
    /\ IdleNames
    /\ prog \in {"main", "sync"}
    /\ npc = "rename"
    /\ \E T \in Trees :
          /\ fs = [id \in T |-> [name |-> LeafOf(id), live |-> TRUE]]
          /\ todo = IF prog = "main" THEN T ELSE {id \in T : KindOf(id) = "file"}
          /\ \E l \in {NoLink} \cup
                       {[doc |-> d, target |-> t, form |-> f] :
                           d \in {id \in T : IsMd(LeafOf(id))},
                           t \in T, f \in {"literal", "encoded"}} :
                /\ link = l
                /\ text = [d \in {id \in T : IsMd(LeafOf(id))} |-> ExportedText(d, l)]
    /\ rename_map = <<>>
    /\ failed = {}

\* A tree without files leaves sync.py's walk nothing to visit.
RenameNothing ==
    /\ npc = "rename"
    /\ todo = {}
    /\ npc' = "renamed"
    /\ UNCHANGED <<prog, fs, todo, rename_map, text, link, failed>>
    /\ UNCHANGED notNormVars

NormNext ==
    \/ RenameEntry
    \/ RenameEntryFail
    \/ RenameFile
    \/ RenameFileRaises
    \/ RenameNothing
    \/ FixMarkdownLinks
    \/ FixMarkdownLinksAgain
    \/ RewriteDocuments
    \/ RewriteDocumentsAgain

SpecNorm == NormInit /\ [][NormNext]_vars

\* ------------------------------------------------------------------ claims

\* C1: in a cycle where a stage before propagation fails (version query,
\* export, archive extraction, normalization, commit), the watermark file is
\* left as it was: from the step that reports the failure on, no step of the
\* cycle changes the file.  (The save is the last step of a cycle, so none
\* precedes the failure.)
C1_FailedStageKeepsWatermark ==
    [][(log' \cap StageFailures # {}) => syncFile' = syncFile]_vars

\* C2: the watermark is written only when the content this cycle exported is
\* what the pushed remote holds.
C2_WatermarkOnlyAfterPush ==
    [][syncFile' # syncFile => pushed' = notes']_vars

\* C3: after a cycle that pushed, the persisted watermark is exactly the
\* last_edited_time read at the start of that cycle.
C3_SuccessSavesObservedVersion ==
    (pc = "idle" /\ "Pushed successfully" \in log)
        => /\ syncFile = FileWith(last_edited_time)
           /\ get_last_sync(syncFile) = last_edited_time

\* A pushed cycle during which the page was edited again: the version on the
\* server is no longer the one the cycle read.
C3_Witness ==
    /\ pc = "idle"
    /\ "Pushed successfully" \in log
    /\ log \cap StageFailures = {}
    /\ remoteVer # last_edited_time
    /\ pushed = Content(remoteVer, "clean")

\* C4: over cycles of every kind, a read of the persisted watermark never
\* returns a value lexically smaller than the read before it.
C4_ReadsNeverRegress ==
    [][~LexGT(last_sync_time, last_sync_time')]_vars

\* A cycle that found nothing new after an earlier cycle had pushed and
\* saved: the read returned the saved watermark.
C4_Witness ==
    /\ pc = "idle"
    /\ "No changes" \in log
    /\ pushed.form # "none"
    /\ LexGT(last_sync_time, DefaultTs)
    /\ last_sync_time = pushed.ver
    /\ syncFile = FileWith(last_sync_time)

\* C5: when the process is killed between opening the watermark file for
\* writing and finishing the write, the next read returns the previous
\* watermark or the new one.
C5_CrashInSaveKeepsValidWatermark ==
    (pc = "crashed" /\ crashedAt = "save_write")
        => get_last_sync(syncFile) \in {last_sync_time, last_edited_time}

\* C6: a poll answered complete with a non-empty URL makes the loop return
\* that URL at once: the state in which that answer is the latest one is a
\* returned state, with one request per pass begun and no sleep after it.
C6_CompleteWithUrlReturnsAtOnce ==
    (PollState(resp) = "complete" /\ HasUrl(resp))
        => /\ ppc = "returned"
           /\ result = "url"
           /\ polls = attempt + 1
           /\ sleeps = attempt

\* In progress on the first three polls, complete on the fourth, attempts
\* left over.
C6_Witness ==
    /\ ppc = "returned"
    /\ result = "url"
    /\ polls = 4
    /\ sleeps = 3
    /\ polls < MaxAttempts

\* The answers that are not terminal: a transport error, empty results, a
\* state other than complete and failure.
NonTerminal(r) ==
    \/ r.net = "error"
    \/ r.body = "object" /\ r.results = "empty"
    \/ r.results = "task" /\ PollState(r) \notin {"complete", "failure"}

\* C7: the loop never issues more than max_attempts requests; each answer
\* that is not terminal uses one attempt; a call whose answers were all of
\* that kind ends, after exactly max_attempts requests, with the timeout;
\* and every call ends.
C7_PollsBoundedThenTimeout ==
    /\ [](/\ polls <= MaxAttempts
          /\ (ppc = "loop" => polls = attempt)
          /\ (ppc = "returned" /\ printed = "Export timeout"
                 => polls = MaxAttempts /\ result = "None")
          /\ (ppc = "returned" /\ NonTerminal(resp)
                 => printed = "Export timeout" /\ polls = MaxAttempts))
    /\ ((ppc = "loop") ~> (ppc \in {"returned", "raised"}))

\* A call that timed out after a last answer that was not terminal.
C7_Witness ==
    /\ ppc = "returned"
    /\ printed = "Export timeout"
    /\ NonTerminal(resp)
    /\ polls = MaxAttempts
    /\ sleeps = MaxAttempts

\* The polls that end in an error: the request raised, or the body could not
\* be parsed into a task status.
IsPollError(r) == r.net = "error" \/ r.body \in {"undecodable", "not_object"}

\* C8: an errored poll never ends the loop by itself: the call has not left
\* through the error, and the errored poll used one attempt.
C8_PollErrorNeverEndsLoop ==
    IsPollError(resp) => (result # "raised" /\ polls = attempt)

\* C9: a poll answered with state failure makes the loop return failure at
\* that attempt, with no sleep and no request after it.
C9_FailedReturnsAtOnce ==
    (resp.results = "task" /\ PollState(resp) = "failure")
        => /\ ppc = "returned"
           /\ result = "None"
           /\ printed = "Export failed"
           /\ polls = attempt + 1
           /\ sleeps = attempt

\* A failure reported on the second poll, attempts left over.
C9_Witness ==
    /\ PollState(resp) = "failure"
    /\ ppc = "returned"
    /\ polls = 2
    /\ polls < MaxAttempts

\* C10: a poll answered complete without a URL is a terminal failure: the
\* loop returns failure at that attempt and does not poll again.
C10_CompleteWithoutUrlIsTerminal ==
    (PollState(resp) = "complete" /\ ~HasUrl(resp))
        => /\ ppc = "returned"
           /\ result = "None"
           /\ printed = "Export complete but no URL found"
           /\ polls = attempt + 1
           /\ sleeps = attempt

\* Complete with an empty URL on the third poll, attempts left over.
C10_Witness ==
    /\ PollState(resp) = "complete"
    /\ resp.url = "empty"
    /\ ppc = "returned"
    /\ polls = 3
    /\ polls < MaxAttempts

\* C12: in sync.py, once the archive could not be opened ("Error unzipping"
\* printed), the rest of the cycle runs no normalization, stages, commits and
\* pushes nothing and does not write the watermark: the output directory,
\* the index, the branch, the remote and the watermark file stay as they are.
C12_BadArchiveAbortsCycle ==
    [][("Error unzipping" \in log)
          => UNCHANGED <<notes, index, head, pushed, syncFile>>]_vars

\* Python's order on strings, written out character by character: the first
\* differing character decides, and a proper prefix is the smaller string.
RECURSIVE StrGreater(_, _)
StrGreater(a, b) ==
    IF a = <<>> THEN FALSE
    ELSE IF b = <<>> THEN TRUE
    ELSE IF Head(a) # Head(b) THEN Head(a) > Head(b)
    ELSE StrGreater(Tail(a), Tail(b))

\* C13: a cycle goes on to the export exactly when the remote version it read
\* is strictly greater, as a string, than the watermark it read; with the two
\* equal it does not go on.
C13_ProceedsIffStrictlyNewer ==
    /\ ("Update detected" \in log) => StrGreater(last_edited_time, last_sync_time)
    /\ ("No changes" \in log) => ~StrGreater(last_edited_time, last_sync_time)
    /\ (pc \in {"clear", "export"}) => "Update detected" \in log
    /\ (pc = "clear") => last_sync_time = get_last_sync(syncFile)

\* A cycle run after a pushed and saved one, with the page not edited since:
\* remote version and watermark are equal, and the cycle stopped.
C13_Witness ==
    /\ pc = "idle"
    /\ "No changes" \in log
    /\ last_edited_time = last_sync_time
    /\ syncFile = FileWith(last_edited_time)
    /\ pushed = Content(last_edited_time, "clean")

\* C14: a cycle whose remote version is not newer than the watermark ends at
\* the comparison and changes nothing: the output directory, the index, the
\* branch, the remote and the watermark file are what they were.
C14_NoChangeCycleChangesNothing ==
    [][(pc = "compare" /\ ~StrGreater(last_edited_time, get_last_sync(syncFile)))
          => /\ pc' = "idle"
             /\ UNCHANGED <<notes, index, head, pushed, syncFile>>]_vars

\* A no-change cycle that ended with the documents of the earlier cycle
\* still in the output directory.
C14_Witness ==
    /\ pc = "idle"
    /\ "No changes" \in log
    /\ notes.form = "clean"
    /\ notes = pushed
    /\ syncFile = FileWith(notes.ver)

\* C11: in a backup cycle the steps begun are always an initial part of the
\* order trigger, await, fetch, extract, normalize, repository init, replace,
\* commit/push; once a step has failed it is the last one begun and the
\* cycle returns failure; the cycle returns success only with every step
\* begun and none failed.
C11_StagesInOrderFailFast ==
    /\ \E n \in 0 .. Len(StageOrder) : stages = SubSeq(StageOrder, 1, n)
    /\ failedStage # "none"
          => /\ stages # <<>>
             /\ stages[Len(stages)] = failedStage
             /\ outcome = "failure"
             /\ bpc \in {"cleanup", "report", "sleep", "error_sleep", "loop",
                         "stopped", "killed"}
    /\ outcome = "success" => stages = StageOrder /\ failedStage = "none"
    /\ (bpc = "report" /\ success) => outcome = "success"

\* A cycle whose archive could not be unpacked: four steps begun, failure
\* handed to the scheduler.
C11_Witness ==
    /\ bpc = "report"
    /\ failedStage = "extract"
    /\ failedStage \in FatalStages
    /\ stages = SubSeq(StageOrder, 1, 4)
    /\ outcome = "failure"
    /\ ~success

\* C19: the scheduling loop is left only after a shutdown signal, and the
\* process exits at start only on an invalid configuration; after a cycle
\* that returned failure, and after an error caught in the loop, another
\* cycle is started unless a signal comes first.
C19_FailedCycleNeverEndsLoop ==
    /\ [](bpc \in {"stopped", "killed"} => signalled)
    /\ [](bpc = "exit1" => config = "invalid" /\ stages = <<>>)
    /\ ((bpc = "report" /\ ~success) ~> (bpc = "trigger" \/ signalled))
    /\ ((bpc = "error_sleep") ~> (bpc = "trigger" \/ signalled))

\* A new cycle has started although the one before it returned failure.
C19_Witness ==
    /\ bpc = "trigger"
    /\ stages = <<>>
    /\ outcome = "none"
    /\ ~success
    /\ repoGit
    /\ ~signalled

\* C20: when the loop has stopped on a signal after a cycle was begun, that
\* cycle had run to its own return: run_backup returned success or failure.
C20_SignalStopsBetweenCycles ==
    (bpc \in {"stopped", "killed"} /\ stages # <<>>)
        => outcome \in {"success", "failure"}

\* What the specification calls the extension of a name: for a file, the
\* last dot and the letters and digits after it, when something comes
\* before that dot; a directory has none.
ExtensionOf(name, kind) ==
    LET dot == RFind(name, ".")
    IN  IF kind = "file" /\ dot > 1 /\ AllIn(From(name, dot + 1), Alnum)
          THEN From(name, dot)
          ELSE <<>>

StemOf(name, kind) == Upto(name, Len(name) - Len(ExtensionOf(name, kind)))

\* The positions at which a token of either form, with whitespace before
\* it, ends the stem.
TokenStarts(stem) ==
    {j \in 2 .. Len(stem) :
        /\ stem[j - 1] \in Space
        /\ \/ MatchesShape(From(stem, j), BareShape)
           \/ MatchesShape(From(stem, j), GroupedShape)}

RECURSIVE DropTrailingSpace(_)
DropTrailingSpace(s) ==
    IF s # <<>> /\ s[Len(s)] \in Space
      THEN DropTrailingSpace(Upto(s, Len(s) - 1))
      ELSE s

\* The stripped name: token and separating whitespace removed, extension
\* kept; the name itself when no token ends the stem.
StrippedName(name, kind) ==
    LET stem == StemOf(name, kind)
    IN  IF TokenStarts(stem) = {} THEN name
        ELSE DropTrailingSpace(Upto(stem, MinOf(TokenStarts(stem)) - 1))
                \o ExtensionOf(name, kind)

\* C16: stripping a file or directory name whose stem ends with whitespace
\* and a token (bare or hyphen-grouped) returns the name without the token
\* and the whitespace, extension unchanged; any other name is returned
\* unchanged.
C16_StripRemovesTokenOnly ==
    cleaner # "none" => cleaned = StrippedName(fname, fkind)

\* The entries of one directory whose names are equal once stripped.
SameStripped(id) ==
    {j \in DOMAIN fs :
        /\ ParentOf(j) = ParentOf(id)
        /\ StrippedName(LeafOf(j), KindOf(j)) = StrippedName(LeafOf(id), KindOf(id))}

\* C15: when the rename pass is over, every entry of the export is still
\* there (none was replaced, the count is the same), the entries of a
\* directory have pairwise distinct names, and an entry that was renamed
\* has its stripped name or that name with _1, _2, ... before the extension.
C15_CollidingSiblingsAllKept ==
    (npc \in {"renamed", "fixed", "fixed_again"})
        => /\ \A id \in DOMAIN fs : fs[id].live
           /\ Cardinality({id \in DOMAIN fs : fs[id].live}) = Cardinality(DOMAIN fs)
           /\ \A i, j \in DOMAIN fs :
                 (i # j /\ ParentOf(i) = ParentOf(j)) => fs[i].name # fs[j].name
           /\ \A id \in DOMAIN fs :
                 fs[id].name # LeafOf(id)
                    => fs[id].name \in
                          {Suffixed(StrippedName(LeafOf(id), KindOf(id)), k) :
                              k \in 0 .. Cardinality(SameStripped(id)) - 1}

\* C17: after the rewriting, no document holds the exported name of a
\* renamed entry, as it is or percent-encoded, and the document that linked
\* to a renamed entry holds its final name in the form the link had.
C17_LinksFollowRenames ==
    (npc = "fixed")
        => \A id \in DOMAIN fs :
              (fs[id].live /\ fs[id].name # LeafOf(id))
                 => \A d \in MdFiles :
                       /\ ~Contains(text[d], LeafOf(id))
                       /\ ~Contains(text[d], quote(LeafOf(id)))
                       /\ (link.doc = d /\ link.target = id)
                             => Contains(text[d], Render(fs[id].name, link.form))

C21_SuccessPropagatesThisExport ==
    (bpc = "cleanup" /\ outcome = "success")
        => /\ temp.ver = wsVer
           /\ repoTree = Content(temp.ver, "clean")

\* C24: the repository work tree changes only in a step of a cycle in which
\* trigger, await, fetch, extract, normalize and repository initialization
\* have all been begun and none has failed, and existing content is removed
\* or replaced only once the replacement has begun after them (the pull of a
\* first initialization fills an empty tree); so a cycle that fails at one
\* of the earlier stages leaves the work tree as it was.
C24_WorkTreeTouchedAfterEarlierStages ==
    [][(repoTree' # repoTree)
          => /\ Len(stages') >= 6
             /\ SubSeq(stages', 1, 6) = SubSeq(StageOrder, 1, 6)
             /\ failedStage' = "none"
             /\ (repoTree # Nothing)
                   => /\ Len(stages') >= 7
                      /\ stages'[7] = "replace"]_vars

\* A cycle failed at the extraction with the backup of an earlier cycle in
\* the work tree: the tree is that backup still.
C24_Witness ==
    /\ bpc = "report"
    /\ failedStage = "extract"
    /\ outcome = "failure"
    /\ repoGit
    /\ repoTree.form = "clean"
    /\ repoTree = repoHead
    /\ repoTree.ver # wsVer

\* C25: after a successful extraction, extracted_path is the directory that
\* holds the extracted export.
C25_RootIsExportDirectory ==
    (root # "none") => root = "tree"

\* C23: when the rename of an entry has failed, the rename pass is not
\* aborted: it goes on with the entries that remain.
C23_RenameFailureDoesNotAbort ==
    (failed # {}) => npc # "aborted"

\* Every entry is visited while no directory above it has been renamed.
VisitedWhilePathValid ==
    [][\A id \in todo \ todo' :
          \A k \in 1 .. Len(id) - 1 : fs[Upto(id, k)].name = LeafOf(Upto(id, k))]_vars

\* C22: after the rename pass of main.py, when no rename has failed, no file
\* or directory at any depth keeps its identifier suffix: every name is its
\* stripped name, or that name with a collision counter.
C22_NoSuffixLeftAtAnyDepth ==
    (prog = "main" /\ npc \in {"renamed", "fixed", "fixed_again"} /\ failed = {})
        => \A id \in DOMAIN fs :
              TokenStarts(StemOf(fs[id].name, KindOf(id))) = {}

====
